---- MODULE Spec2Model ----
(***************************************************************************)
(* A piece download of the BitTorrent leech client: the peer sessions of   *)
(* src/src/peer.rs (Peer::new, Peer::participate) around the three         *)
(* channels of the per-piece block scheduler.                              *)
(***************************************************************************)
EXTENDS Integers, Sequences, FiniteSets, TLC

\* ------------------------------------------------------------- constants

\* main.rs:23  pub const BLOCK_MAX: usize = 1 << 14;
BLOCK_MAX == 16384

\* peer.rs:231  const PIECE_LEAD: usize = mem::size_of::<Piece<()>>();
PIECE_LEAD == 8

\* u8::BITS
U8_BITS == 8

\* peer.rs:286  const MAX: usize = 2 << 16;
MAX == 131072

\* ---------------------------------------------------------------- bounds

\* number of blocks of the piece being downloaded
NBlocks == 2

\* byte length of the last block of the piece (the piece is not a multiple
\* of BLOCK_MAX)
TailLen == 100

\* the remote peers send at most MaxChokes Choke messages in all while a
\* Request is outstanding
MaxChokes == 1

\* the pieces whose block sizes are computed have at most MaxCalcBlocks
\* blocks, the torrents whose piece sizes are computed at most MaxCalcBlocks
\* pieces
MaxCalcBlocks == 3

\* the bitfield payloads queried have at most MaxBitfieldLen bytes
MaxBitfieldLen == 2

\* the payloads of the messages encoded byte by byte have at most
\* MaxPayloadLen bytes (beside the payloads at the size limit of a frame)
MaxPayloadLen == 2

\* the byte streams decoded have at most MaxFrames frames (and the
\* beginning of one more)
MaxFrames == 3

\* ------------------------------------------------------------ parameters

\* the participants of the piece download
Peers == {"A", "B"}

\* the piece being downloaded (piece_i) and its size (piece_size)
piece_i == 0

piece_size == (NBlocks - 1) * BLOCK_MAX + TailLen

\* main.rs:287  the + (BLOCK_MAX - 1) rounds up
nblocks == (piece_size + (BLOCK_MAX - 1)) \div BLOCK_MAX

Blocks == 0 .. (nblocks - 1)

NoBlock == -1

\* the bitfield payloads a remote peer announces: no byte at all, piece 1
\* only, piece 0 only
BitfieldPayloads == {<<>>, <<64>>, <<128>>}

\* the piece indices a remote peer announces with Have
HaveIndices == {1}

\* ------------------------------------------------------------------ state

VARIABLES
    pc,            \* per session: where its task stands ("new": inside
                   \* Peer::new; "idle": constructed, participate not yet
                   \* polled; "wait_unchoke": peer.rs:79-112; "recv":
                   \* peer.rs:113; "in_flight": peer.rs:143-188)
    result,        \* per session: Running, or what Peer::new / participate
                   \* ended with (Ok, an Err, a panic) at position pc
    choked,        \* Peer.choked
    bitfield,      \* Peer.bitfield.payload
    block,         \* the local block of participate (NoBlock: none)
    honest,        \* per session: whether its remote peer serves it (a valid
                   \* handshake and Bitfield, Unchoke when asked, the matching
                   \* Piece for every Request, no stream failure)
    work,          \* the work channel (tasks / work_rx)
    requeue,       \* the requeue channel (submit / requeue_tx)
    completed,     \* the completion channel (finish / completed_tx)
    received,      \* scheduler: block indices received on completed
    closed,        \* scheduler: the work channel has been closed
    nchoke,        \* history: Choke messages read with a block in flight
    takes,         \* history: takes[p][b], times p received b from work
    requeued,      \* history: requeued[p][b], times p sent b on requeue
    delivered,     \* history: delivered[p][b], times p sent b on completed
    awaitUnchoke,  \* history: p read Choke in flight and no Unchoke since
    haveRead,      \* history: the piece indices of the Have messages p read
    nInterested,   \* history: Interested messages p handed to its stream
    requestsSent,  \* history: the Requests p handed to its stream
    calc,          \* the input and the result of a pure computation (block
                   \* and piece sizes, has_piece, the codec), NoCalc in a
                   \* piece download
    dp             \* the single-peer download of one piece (main.rs,
                   \* Command::DownloadPiece) from its request loop on: the
                   \* piece, the loop's block, all_blocks, how it ended and
                   \* what it wrote to the output; NoDp elsewhere

vars == <<pc, result, choked, bitfield, block, honest, work, requeue,
          completed, received, closed, nchoke, takes, requeued, delivered,
          awaitUnchoke, haveRead, nInterested, requestsSent, calc, dp>>

sessionVars == <<pc, result, choked, bitfield, block>>

schedVars == <<work, requeue, completed, received, closed>>

histVars == <<nchoke, takes, requeued, delivered, awaitUnchoke, haveRead>>

sendVars == <<nInterested, requestsSent>>

NoCalc == [fn |-> "none"]

NoDp == [pc |-> "none"]

\* the output file: not written, or written with bytes
NoOutput == [written |-> FALSE, bytes |-> <<>>]

Written(bytes) == [written |-> TRUE, bytes |-> bytes]

NoRequest == [tag |-> "none"]

\* ---------------------------------------------------------------- results

Running == [kind |-> "running", msg |-> ""]

OkResult == [kind |-> "Ok", msg |-> ""]

Err(m) == [kind |-> "Err", msg |-> m]

Panic(m) == [kind |-> "panic", msg |-> m]

\* ----------------------------------------------------------------- frames

\* What stream.next().await yields: None (the stream ended), Some(Err(_))
\* (the decoder or the socket failed) or Some(Ok(Message)). A Message keeps
\* its tag, its payload length and, where the code reads them, the payload's
\* leading index and begin fields and (Bitfield) its bytes.
Frame(res, tag, plen, index, begin, bytes) ==
    [res |-> res, tag |-> tag, plen |-> plen, index |-> index,
     begin |-> begin, bytes |-> bytes]

StreamEnd == Frame("none", "", 0, 0, 0, <<>>)

StreamErr == Frame("err", "", 0, 0, 0, <<>>)

Msg(tag, plen) == Frame("msg", tag, plen, 0, 0, <<>>)

HaveMsg(q) == Frame("msg", "Have", 4, q, 0, <<>>)

BitfieldMsg(bytes) == Frame("msg", "Bitfield", Len(bytes), 0, 0, bytes)

PieceMsg(index, begin, blen) ==
    Frame("msg", "Piece", PIECE_LEAD + blen, index, begin, <<>>)

\* a Piece message too short to hold index and begin
ShortPieceMsg == Frame("msg", "Piece", 4, 0, 0, <<>>)

ControlFrames ==
    {Msg("Choke", 0), Msg("Choke", 1), Msg("Unchoke", 0), Msg("Unchoke", 1),
     Msg("Interested", 0), Msg("NotInterested", 0), Msg("Request", 12),
     Msg("Cancel", 12)}

\* ---------------------------------------------------------- pure functions

RECURSIVE Pow2(_)
Pow2(n) == IF n = 0 THEN 1 ELSE 2 * Pow2(n - 1)

\* u8::rotate_right
rotate_right(x, n) ==
    LET k == n % U8_BITS
    IN  (x \div Pow2(k)) + ((x % Pow2(k)) * Pow2(U8_BITS - k))

\* bitwise and of two bytes
RECURSIVE BitAnd(_, _, _)
BitAnd(a, b, nbits) ==
    IF nbits = 0 THEN 0
    ELSE (a % 2) * (b % 2) + 2 * BitAnd(a \div 2, b \div 2, nbits - 1)

\* has_piece with the bits of a byte counted from the least significant
has_piece_lsb_first(payload, i) ==
    LET byte_i == i \div U8_BITS
        bit_i  == i % U8_BITS
    IN  IF byte_i + 1 > Len(payload) THEN FALSE
        ELSE BitAnd(payload[byte_i + 1], Pow2(bit_i), U8_BITS) # 0

\* peer.rs:389-397  Bitfield::has_piece
has_piece(payload, i) ==
    LET byte_i == i \div U8_BITS
        bit_i  == i % U8_BITS
    IN  IF byte_i + 1 > Len(payload) THEN FALSE
        ELSE BitAnd(payload[byte_i + 1], rotate_right(1, bit_i + 1), U8_BITS) # 0

\* block_size with the remainder taken as it is
block_size_plain_remainder(blk, psize, nb) ==
    IF blk = nb - 1 THEN psize % BLOCK_MAX ELSE BLOCK_MAX

\* peer.rs:117-126  the size of block blk of a piece of nb blocks
block_size(blk, psize, nb) ==
    IF blk = nb - 1
    THEN LET md == psize % BLOCK_MAX
         IN  IF md = 0 THEN BLOCK_MAX ELSE md
    ELSE BLOCK_MAX

\* u32::to_be_bytes of a usize cast to u32: the four low bytes, the most
\* significant first
to_be_bytes(x) ==
    <<(x \div Pow2(24)) % 256, (x \div Pow2(16)) % 256, (x \div Pow2(8)) % 256,
      x % 256>>

\* u32::from_be_bytes
from_be_bytes(b) == ((b[1] * 256 + b[2]) * 256 + b[3]) * 256 + b[4]

\* peer.rs:128-132, 422-429  Request::new(piece_i as u32, (block * BLOCK_MAX)
\* as u32, block_size as u32)
Request_new(index, begin, length) ==
    [tag |-> "Request", index |-> to_be_bytes(index),
     begin |-> to_be_bytes(begin), length |-> to_be_bytes(length)]

\* peer.rs:233-248  Piece::ref_from_bytes: None when the payload is shorter
\* than PIECE_LEAD, else the view (index, begin, block)
ref_from_bytes(f) ==
    IF f.plen < PIECE_LEAD
    THEN [some |-> FALSE, index |-> 0, begin |-> 0, blen |-> 0]
    ELSE [some |-> TRUE, index |-> f.index, begin |-> f.begin,
          blen |-> f.plen - PIECE_LEAD]

\* main.rs:287  nblocks of a piece of psize bytes
nblocks_of(psize) == (psize + (BLOCK_MAX - 1)) \div BLOCK_MAX

\* the piece size with the remainder taken as it is
piece_size_plain_remainder(i, npieces, length, plength) ==
    IF i = npieces - 1 THEN length % plength ELSE plength

\* main.rs:276-285  the size of piece i of a torrent of npieces pieces
piece_size_of(i, npieces, length, plength) ==
    IF i = npieces - 1
    THEN LET md == length % plength
         IN  IF md = 0 THEN plength ELSE md
    ELSE plength

\* peer.rs:199-209  MessageTag, in the order of its discriminants 0..8
MessageTags ==
    <<"Choke", "Unchoke", "Interested", "NotInterested", "Have", "Bitfield",
      "Request", "Piece", "Cancel">>

\* item.tag as u8
tag_u8(tag) == CHOOSE n \in 0 .. 8 : MessageTags[n + 1] = tag

\* encode with the length prefix counting the payload only
encode_length_without_tag(item, dst) ==
    IF Len(item.payload) + 1 > MAX
    THEN [ok |-> FALSE, dst |-> dst]
    ELSE [ok |-> TRUE,
          dst |-> dst \o to_be_bytes(Len(item.payload))
                      \o <<tag_u8(item.tag)>> \o item.payload]

\* peer.rs:362-381  Encoder<Message>::encode(item, dst)
encode(item, dst) ==
    IF Len(item.payload) + 1 > MAX
    THEN [ok |-> FALSE, dst |-> dst]
    ELSE [ok |-> TRUE,
          dst |-> dst \o to_be_bytes(Len(item.payload) + 1)
                      \o <<tag_u8(item.tag)>> \o item.payload]

RECURSIVE decode(_)

\* decode that answers a keep-alive header with Ok(None), the header left in the buffer
decode_keepalive_stalls(src) ==
    LET out(res, tag, payload, rest) ==
            [res |-> res, tag |-> tag, payload |-> payload, rest |-> rest]
    IN  IF Len(src) < 4 THEN out("none", "", <<>>, src)
        ELSE LET length == from_be_bytes(SubSeq(src, 1, 4))
             IN  IF length = 0 THEN out("none", "", <<>>, src)
                 ELSE IF Len(src) < 5 THEN out("none", "", <<>>, src)
                 ELSE IF length > MAX THEN out("err", "", <<>>, src)
                 ELSE IF Len(src) < length + 4 THEN out("none", "", <<>>, src)
                 ELSE IF src[5] > 8 THEN out("err", "", <<>>, src)
                 ELSE out("msg", MessageTags[src[5] + 1],
                          IF Len(src) > 5 THEN SubSeq(src, 6, 4 + length)
                          ELSE <<>>,
                          SubSeq(src, 4 + length + 1, Len(src)))

\* decode that advances past the frame before it looks at the tag
decode_advance_before_tag(src) ==
    LET out(res, tag, payload, rest) ==
            [res |-> res, tag |-> tag, payload |-> payload, rest |-> rest]
    IN  IF Len(src) < 4 THEN out("none", "", <<>>, src)
        ELSE LET length == from_be_bytes(SubSeq(src, 1, 4))
             IN  IF length = 0 THEN decode(SubSeq(src, 5, Len(src)))
                 ELSE IF Len(src) < 5 THEN out("none", "", <<>>, src)
                 ELSE IF length > MAX THEN out("err", "", <<>>, src)
                 ELSE IF Len(src) < length + 4 THEN out("none", "", <<>>, src)
                 ELSE IF src[5] > 8
                      THEN out("err", "", <<>>, SubSeq(src, 4 + length + 1, Len(src)))
                 ELSE out("msg", MessageTags[src[5] + 1],
                          IF Len(src) > 5 THEN SubSeq(src, 6, 4 + length)
                          ELSE <<>>,
                          SubSeq(src, 4 + length + 1, Len(src)))

\* decode that takes the header off the buffer before the frame is complete
decode_header_consumed_early(src) ==
    LET out(res, tag, payload, rest) ==
            [res |-> res, tag |-> tag, payload |-> payload, rest |-> rest]
    IN  IF Len(src) < 4 THEN out("none", "", <<>>, src)
        ELSE LET length == from_be_bytes(SubSeq(src, 1, 4))
             IN  IF length = 0 THEN decode(SubSeq(src, 5, Len(src)))
                 ELSE IF Len(src) < 5 THEN out("none", "", <<>>, src)
                 ELSE IF length > MAX THEN out("err", "", <<>>, src)
                 ELSE IF Len(src) < length + 4
                      THEN out("none", "", <<>>, SubSeq(src, 5, Len(src)))
                 ELSE IF src[5] > 8 THEN out("err", "", <<>>, src)
                 ELSE out("msg", MessageTags[src[5] + 1],
                          IF Len(src) > 5 THEN SubSeq(src, 6, 4 + length)
                          ELSE <<>>,
                          SubSeq(src, 4 + length + 1, Len(src)))

\* peer.rs:293-356  Decoder::decode(src): Ok(None), Err or Ok(Some(Message)),
\* and the buffer it leaves
decode(src) ==
    LET out(res, tag, payload, rest) ==
            [res |-> res, tag |-> tag, payload |-> payload, rest |-> rest]
    IN  IF Len(src) < 4 THEN out("none", "", <<>>, src)
        ELSE LET length == from_be_bytes(SubSeq(src, 1, 4))
             IN  IF length = 0 THEN decode(SubSeq(src, 5, Len(src)))
                 ELSE IF Len(src) < 5 THEN out("none", "", <<>>, src)
                 ELSE IF length > MAX THEN out("err", "", <<>>, src)
                 ELSE IF Len(src) < length + 4 THEN out("none", "", <<>>, src)
                 ELSE IF src[5] > 8 THEN out("err", "", <<>>, src)
                 ELSE out("msg", MessageTags[src[5] + 1],
                          IF Len(src) > 5 THEN SubSeq(src, 6, 4 + length)
                          ELSE <<>>,
                          SubSeq(src, 4 + length + 1, Len(src)))

\* --------------------------------------------------- the session's handlers

\* The local state of a session task is L = [pc, result, choked, block]; a
\* handler yields the next local state and what it sent: requeue (a block
\* index sent on submit, or NoBlock) and finish (whether the message read
\* was sent on finish), interested (whether it handed an Interested message
\* to the stream) and request (the Request it handed to the stream, or
\* NoRequest).
Stay(L) ==
    [pc |-> L.pc, result |-> L.result, choked |-> L.choked, block |-> L.block,
     requeue |-> NoBlock, finish |-> FALSE, interested |-> FALSE,
     request |-> NoRequest]

End(L, r) == [Stay(L) EXCEPT !.result = r]

\* the loop top without the while self.choked loop
LoopTop_recv(ch) == "recv"

\* peer.rs:78-79  the top of 'task: while self.choked before tasks.recv()
LoopTop(ch) == IF ch THEN "wait_unchoke" ELSE "recv"

\* peer.rs:87-91
choked_Unchoke(L, f) ==
    IF f.plen = 0
    THEN [Stay(L) EXCEPT !.choked = FALSE, !.pc = "recv"]
    ELSE [Stay(L) EXCEPT !.choked = FALSE,
                         !.result = Panic("assertion failed: unchoke.payload.is_empty()")]

\* peer.rs:105-107
choked_Choke(L, f) == End(L, Err("peer sent unchoke while unchoked"))

\* peer.rs:92-95
choked_Have(L, f) == Stay(L)

\* the Bitfield arm of the choked loop left empty
choked_Bitfield_ignored(L, f) == Stay(L)

\* peer.rs:108-110
choked_Bitfield(L, f) ==
    End(L, Err("peer sent bitfield after handshake has been completed"))

\* peer.rs:80-111  one turn of the while self.choked loop on frame f
choked_read(L, f) ==
    IF f.res = "none" THEN End(L, Panic("peer always sends an unchoke"))
    ELSE IF f.res = "err" THEN End(L, Err("peer message was invalid"))
    ELSE IF f.tag = "Unchoke" THEN choked_Unchoke(L, f)
    ELSE IF f.tag = "Have" THEN choked_Have(L, f)
    ELSE IF f.tag \in {"Interested", "NotInterested", "Request", "Cancel"}
         THEN Stay(L)
    ELSE IF f.tag = "Piece" THEN Stay(L)
    ELSE IF f.tag = "Choke" THEN choked_Choke(L, f)
    ELSE choked_Bitfield(L, f)

\* the Choke arm without self.choked = true
inflight_Choke_not_choked(L, f) ==
    IF f.plen # 0
    THEN End(L, Panic("assertion failed: msg.payload.is_empty()"))
    ELSE [Stay(L) EXCEPT !.requeue = L.block, !.block = NoBlock,
                         !.pc = LoopTop(L.choked)]

\* the Choke arm with a plain continue: the inner loop goes on with the block
inflight_Choke_inner_continue(L, f) ==
    IF f.plen # 0
    THEN End(L, Panic("assertion failed: msg.payload.is_empty()"))
    ELSE [Stay(L) EXCEPT !.choked = TRUE, !.requeue = L.block]

\* the Choke arm with submit.send(piece_i)
inflight_Choke_sends_piece_i(L, f) ==
    IF f.plen # 0
    THEN End(L, Panic("assertion failed: msg.payload.is_empty()"))
    ELSE [Stay(L) EXCEPT !.choked = TRUE, !.requeue = piece_i,
                         !.block = NoBlock, !.pc = LoopTop(TRUE)]

\* peer.rs:152-157
inflight_Choke(L, f) ==
    IF f.plen # 0
    THEN End(L, Panic("assertion failed: msg.payload.is_empty()"))
    ELSE [Stay(L) EXCEPT !.choked = TRUE, !.requeue = L.block,
                         !.block = NoBlock, !.pc = LoopTop(TRUE)]

\* the test of peer.rs:162-163 with && for ||
is_stale_and(piece, blk) ==
    piece.index # piece_i /\ piece.begin # blk * BLOCK_MAX

\* peer.rs:162-163  the Piece read is not the answer to the Request
is_stale(piece, blk) ==
    piece.index # piece_i \/ piece.begin # blk * BLOCK_MAX

\* the Piece arm without the assert_eq! on the length of the block
inflight_Piece_no_length_assert(L, f) ==
    LET piece == ref_from_bytes(f)
    IN  IF ~piece.some
        THEN End(L, Panic("always get all Piece response fields from peer"))
        ELSE IF is_stale(piece, L.block) THEN Stay(L)
        ELSE [Stay(L) EXCEPT !.finish = TRUE, !.block = NoBlock,
                             !.pc = LoopTop(L.choked)]

\* peer.rs:158-170, 190
inflight_Piece(L, f) ==
    LET piece == ref_from_bytes(f)
    IN  IF ~piece.some
        THEN End(L, Panic("always get all Piece response fields from peer"))
        ELSE IF is_stale(piece, L.block) THEN Stay(L)
        ELSE IF piece.blen # block_size(L.block, piece_size, nblocks)
        THEN End(L, Panic("assertion left == right failed"))
        ELSE [Stay(L) EXCEPT !.finish = TRUE, !.block = NoBlock,
                             !.pc = LoopTop(L.choked)]

\* the Have arm with continue 'task
inflight_Have_continue_task(L, f) == [Stay(L) EXCEPT !.pc = LoopTop(L.choked)]

\* peer.rs:171-174
inflight_Have(L, f) == Stay(L)

\* the Unchoke arm of the inner loop left empty
inflight_Unchoke_ignored(L, f) == Stay(L)

\* peer.rs:181-183
inflight_Unchoke(L, f) == End(L, Err("peer sent unchoke while unchoked"))

\* peer.rs:184-186
inflight_Bitfield(L, f) ==
    End(L, Err("peer sent bitfield after handshake has been completed"))

\* peer.rs:143-190  one turn of the inner loop on frame f
inflight_read(L, f) ==
    IF f.res = "none" THEN End(L, Panic("peer always sends a piece"))
    ELSE IF f.res = "err" THEN End(L, Err("peer message was invalid"))
    ELSE IF f.tag = "Choke" THEN inflight_Choke(L, f)
    ELSE IF f.tag = "Piece" THEN inflight_Piece(L, f)
    ELSE IF f.tag = "Have" THEN inflight_Have(L, f)
    ELSE IF f.tag \in {"Interested", "NotInterested", "Request", "Cancel"}
         THEN Stay(L)
    ELSE IF f.tag = "Unchoke" THEN inflight_Unchoke(L, f)
    ELSE inflight_Bitfield(L, f)

\* tasks.recv().await? for the let-else of peer.rs:113-115
recv_closed_is_error(L) == End(L, Err("receive a block to download"))

\* peer.rs:113-115  what participate does when tasks.recv() fails
recv_closed(L) == End(L, OkResult)

\* the Request with begin = block for begin = block * BLOCK_MAX
recv_block_begin_is_block(L, blk, sent) ==
    LET request == Request_new(piece_i, blk,
                               block_size(blk, piece_size, nblocks))
    IN  IF sent
        THEN [Stay(L) EXCEPT !.block = blk, !.pc = "in_flight",
                             !.request = request]
        ELSE [Stay(L) EXCEPT !.block = blk, !.request = request,
                             !.result = Err("send request for block")]

\* peer.rs:113-140  tasks.recv() gave blk; the Request is sent (sent: the
\* stream accepted it)
recv_block(L, blk, sent) ==
    LET request == Request_new(piece_i, blk * BLOCK_MAX,
                               block_size(blk, piece_size, nblocks))
    IN  IF sent
        THEN [Stay(L) EXCEPT !.block = blk, !.pc = "in_flight",
                             !.request = request]
        ELSE [Stay(L) EXCEPT !.block = blk, !.request = request,
                             !.result = Err("send request for block")]

\* the entry of participate without its send of Interested
participate_entry_no_interested(L, bf, sent) ==
    IF ~has_piece(bf, piece_i)
    THEN End(L, Err("Condition failed: self.bitfield.has_piece(piece_i)"))
    ELSE [Stay(L) EXCEPT !.pc = LoopTop(L.choked)]

\* peer.rs:67-78  the entry of participate (sent: the stream accepted the
\* Interested message)
participate_entry(L, bf, sent) ==
    IF ~has_piece(bf, piece_i)
    THEN End(L, Err("Condition failed: self.bitfield.has_piece(piece_i)"))
    ELSE IF ~sent
         THEN [End(L, Err("send interested message")) EXCEPT !.interested = TRUE]
    ELSE [Stay(L) EXCEPT !.pc = LoopTop(L.choked), !.interested = TRUE]

\* Peer::new without the ensure! on the first frame's tag
Peer_new_any_tag(io, hs, f) ==
    LET fail(r) == [result |-> r, bitfield |-> <<>>, made |-> FALSE]
    IN  IF io = "connect" THEN fail(Err("connect to peer"))
        ELSE IF io = "write" THEN fail(Err("write handshake"))
        ELSE IF io = "read" THEN fail(Err("read handshake"))
        ELSE IF hs.length # 19
             THEN fail(Err("Condition failed: handshake.length == 19"))
        ELSE IF hs.bittorrent # "BitTorrent protocol"
             THEN fail(Err("Condition failed: handshake.bittorrent is not the protocol name"))
        ELSE IF f.res = "none" THEN fail(Panic("peer always sends a bitfields"))
        ELSE IF f.res = "err" THEN fail(Err("peer message was invalid"))
        ELSE [result |-> Running, bitfield |-> f.bytes, made |-> TRUE]

\* Peer::new without the ensure! on the protocol name
Peer_new_no_name_check(io, hs, f) ==
    LET fail(r) == [result |-> r, bitfield |-> <<>>, made |-> FALSE]
    IN  IF io = "connect" THEN fail(Err("connect to peer"))
        ELSE IF io = "write" THEN fail(Err("write handshake"))
        ELSE IF io = "read" THEN fail(Err("read handshake"))
        ELSE IF hs.length # 19
             THEN fail(Err("Condition failed: handshake.length == 19"))
        ELSE IF f.res = "none" THEN fail(Panic("peer always sends a bitfields"))
        ELSE IF f.res = "err" THEN fail(Err("peer message was invalid"))
        ELSE IF f.tag # "Bitfield"
             THEN fail(Err("Condition failed: bitfield.tag == MessageTag::Bitfield"))
        ELSE [result |-> Running, bitfield |-> f.bytes, made |-> TRUE]

\* peer.rs:21-52  Peer::new: io is how far the socket got, hs the handshake
\* read back, f the first frame; yields the result and the session's fields
Peer_new(io, hs, f) ==
    LET fail(r) == [result |-> r, bitfield |-> <<>>, made |-> FALSE]
    IN  IF io = "connect" THEN fail(Err("connect to peer"))
        ELSE IF io = "write" THEN fail(Err("write handshake"))
        ELSE IF io = "read" THEN fail(Err("read handshake"))
        ELSE IF hs.length # 19
             THEN fail(Err("Condition failed: handshake.length == 19"))
        ELSE IF hs.bittorrent # "BitTorrent protocol"
             THEN fail(Err("Condition failed: handshake.bittorrent is not the protocol name"))
        ELSE IF f.res = "none" THEN fail(Panic("peer always sends a bitfields"))
        ELSE IF f.res = "err" THEN fail(Err("peer message was invalid"))
        ELSE IF f.tag # "Bitfield"
             THEN fail(Err("Condition failed: bitfield.tag == MessageTag::Bitfield"))
        ELSE [result |-> Running, bitfield |-> f.bytes, made |-> TRUE]

\* ------------------------------------------------------- the remote peers

Handshakes ==
    {[length |-> l, bittorrent |-> n] :
        l \in {19, 18}, n \in {"BitTorrent protocol", "BitTorrent protocoL"}}

\* the Piece messages a remote peer may send: this piece or another, the
\* offset of any block, the data length of any block or none at all
PieceFrames ==
    {PieceMsg(i, b * BLOCK_MAX, n) :
        i \in {piece_i, piece_i + 1}, b \in Blocks,
        n \in {block_size(c, piece_size, nblocks) : c \in Blocks} \cup {0}}
    \cup {ShortPieceMsg}

AllFrames ==
    {StreamEnd, StreamErr} \cup ControlFrames \cup PieceFrames
    \cup {HaveMsg(q) : q \in HaveIndices}
    \cup {BitfieldMsg(bf) : bf \in BitfieldPayloads}

\* the answer of a serving remote peer to the Request for block blk
Answer(blk) ==
    PieceMsg(piece_i, blk * BLOCK_MAX, block_size(blk, piece_size, nblocks))

RECURSIVE SumOver(_, _)
SumOver(f, S) ==
    IF S = {} THEN 0
    ELSE LET x == CHOOSE y \in S : TRUE IN f[x] + SumOver(f, S \ {x})

\* the Choke messages read so far with a Request outstanding
ChokesRead == SumOver(nchoke, Peers)

\* what session p may read next
Incoming(p) ==
    IF honest[p]
    THEN CASE pc[p] = "new" -> {BitfieldMsg(<<128>>)}
           [] pc[p] = "wait_unchoke" -> {Msg("Unchoke", 0)}
           [] pc[p] = "in_flight" -> {Answer(block[p])}
           [] OTHER -> {}
    ELSE {f \in AllFrames :
            (f.tag = "Choke" /\ pc[p] = "in_flight") => ChokesRead < MaxChokes}

\* whether a write of session p to its stream succeeds
SendOutcomes(p) == IF honest[p] THEN {TRUE} ELSE BOOLEAN

\* ----------------------------------------------------------------- actions

Local(p) ==
    [pc |-> pc[p], result |-> result[p], choked |-> choked[p],
     block |-> block[p]]

Inc(cnt, p, b) == [cnt EXCEPT ![p][b] = @ + 1]

\* the history of the Have messages read
NoteHave(p, f) ==
    haveRead' = IF f.res = "msg" /\ f.tag = "Have"
                THEN [haveRead EXCEPT ![p] = @ \cup {f.index}]
                ELSE haveRead

\* session p moves to outcome o of a handler: its fields, the two channels it
\* sends on and the history of its sends
Apply(p, o) ==
    /\ pc' = [pc EXCEPT ![p] = o.pc]
    /\ result' = [result EXCEPT ![p] = o.result]
    /\ choked' = [choked EXCEPT ![p] = o.choked]
    /\ block' = [block EXCEPT ![p] = o.block]
    /\ requeue' = IF o.requeue # NoBlock THEN Append(requeue, o.requeue)
                  ELSE requeue
    /\ requeued' = IF o.requeue # NoBlock THEN Inc(requeued, p, o.requeue)
                   ELSE requeued
    /\ nInterested' = IF o.interested THEN [nInterested EXCEPT ![p] = @ + 1]
                      ELSE nInterested
    /\ requestsSent' = IF o.request # NoRequest
                       THEN [requestsSent EXCEPT ![p] = @ \cup {o.request}]
                       ELSE requestsSent

SessionInit ==
    /\ pc = [p \in Peers |-> "new"]
    /\ result = [p \in Peers |-> Running]
    /\ choked = [p \in Peers |-> TRUE]
    /\ bitfield = [p \in Peers |-> <<>>]
    /\ block = [p \in Peers |-> NoBlock]
    /\ honest \in [Peers -> BOOLEAN]
    /\ work = [i \in 1 .. nblocks |-> i - 1]
    /\ requeue = <<>>
    /\ completed = <<>>
    /\ received = {}
    /\ closed = FALSE
    /\ nchoke = [p \in Peers |-> 0]
    /\ takes = [p \in Peers |-> [b \in Blocks |-> 0]]
    /\ requeued = [p \in Peers |-> [b \in Blocks |-> 0]]
    /\ delivered = [p \in Peers |-> [b \in Blocks |-> 0]]
    /\ awaitUnchoke = [p \in Peers |-> FALSE]
    /\ haveRead = [p \in Peers |-> {}]
    /\ nInterested = [p \in Peers |-> 0]
    /\ requestsSent = [p \in Peers |-> {}]

Init ==
    /\ SessionInit
    /\ calc = NoCalc
    /\ dp = NoDp

\* Peer::new(peer_addr, info_hash)
New(p) ==
    /\ pc[p] = "new" /\ result[p] = Running
    /\ \E io \in (IF honest[p] THEN {"ok"} ELSE {"ok", "connect", "write", "read"}),
          hs \in (IF honest[p]
                  THEN {[length |-> 19, bittorrent |-> "BitTorrent protocol"]}
                  ELSE Handshakes),
          f \in Incoming(p) :
          LET n == Peer_new(io, hs, f)
          IN  /\ result' = [result EXCEPT ![p] = n.result]
              /\ pc' = [pc EXCEPT ![p] = IF n.made THEN "idle" ELSE "new"]
              /\ bitfield' = [bitfield EXCEPT ![p] = n.bitfield]
              /\ choked' = [choked EXCEPT ![p] = TRUE]
    /\ UNCHANGED <<block, honest, schedVars, histVars, sendVars, calc, dp>>

\* participate is polled for the first time: peer.rs:67-78
Enter(p) ==
    /\ pc[p] = "idle" /\ result[p] = Running
    /\ \E sent \in SendOutcomes(p) :
          Apply(p, participate_entry(Local(p), bitfield[p], sent))
    /\ UNCHANGED <<bitfield, honest, work, completed, received, closed,
                   nchoke, takes, delivered, awaitUnchoke, haveRead, calc, dp>>

\* one message read in the while self.choked loop: peer.rs:79-112
ReadChoked(p) ==
    /\ pc[p] = "wait_unchoke" /\ result[p] = Running
    /\ \E f \in Incoming(p) :
          /\ Apply(p, choked_read(Local(p), f))
          /\ awaitUnchoke' = IF f.res = "msg" /\ f.tag = "Unchoke"
                             THEN [awaitUnchoke EXCEPT ![p] = FALSE]
                             ELSE awaitUnchoke
          /\ NoteHave(p, f)
    /\ UNCHANGED <<bitfield, honest, work, completed, received, closed,
                   nchoke, takes, delivered, calc, dp>>

\* tasks.recv() and the Request that follows it: peer.rs:113-140
TakeWork(p) ==
    /\ pc[p] = "recv" /\ result[p] = Running
    /\ IF closed
       THEN /\ Apply(p, recv_closed(Local(p)))
            /\ UNCHANGED <<work, takes>>
       ELSE /\ work # <<>>
            /\ \E sent \in SendOutcomes(p) :
                  Apply(p, recv_block(Local(p), Head(work), sent))
            /\ work' = Tail(work)
            /\ takes' = Inc(takes, p, Head(work))
    /\ UNCHANGED <<bitfield, honest, completed, received, closed, nchoke,
                   delivered, awaitUnchoke, haveRead, calc, dp>>

\* one message read while a Request is outstanding, and the send on finish
\* that follows the matching Piece: peer.rs:142-190
ReadInFlight(p) ==
    /\ pc[p] = "in_flight" /\ result[p] = Running
    /\ \E f \in Incoming(p) :
          LET o == inflight_read(Local(p), f)
              choke == f.res = "msg" /\ f.tag = "Choke" /\ f.plen = 0
          IN  /\ Apply(p, o)
              /\ completed' = IF o.finish THEN Append(completed, f)
                              ELSE completed
              /\ delivered' = IF o.finish THEN Inc(delivered, p, block[p])
                              ELSE delivered
              /\ nchoke' = IF choke THEN [nchoke EXCEPT ![p] = @ + 1]
                           ELSE nchoke
              /\ awaitUnchoke' =
                    IF choke THEN [awaitUnchoke EXCEPT ![p] = TRUE]
                    ELSE IF f.res = "msg" /\ f.tag = "Unchoke"
                    THEN [awaitUnchoke EXCEPT ![p] = FALSE]
                    ELSE awaitUnchoke
              /\ NoteHave(p, f)
    /\ UNCHANGED <<bitfield, honest, work, received, closed, takes, calc, dp>>

\* the scheduler forwards a requeued block index into work
Forward ==
    /\ requeue # <<>>
    /\ ~closed
    /\ work' = Append(work, Head(requeue))
    /\ requeue' = Tail(requeue)
    /\ UNCHANGED <<sessionVars, honest, completed, received, closed, histVars,
                   sendVars, calc, dp>>

\* the scheduler receives a completed block; with all nblocks received it
\* closes work
Collect ==
    /\ completed # <<>>
    /\ LET got == received \cup {Head(completed).begin \div BLOCK_MAX}
       IN  /\ received' = got
           /\ closed' = (closed \/ Cardinality(got) = nblocks)
    /\ completed' = Tail(completed)
    /\ UNCHANGED <<sessionVars, honest, work, requeue, histVars, sendVars,
                   calc, dp>>

Next ==
    \/ \E p \in Peers : New(p)
    \/ \E p \in Peers : Enter(p)
    \/ \E p \in Peers : ReadChoked(p)
    \/ \E p \in Peers : TakeWork(p)
    \/ \E p \in Peers : ReadInFlight(p)
    \/ Forward
    \/ Collect

Spec == Init /\ [][Next]_vars

\* Scheduling: the runtime polls every task that can go on (the scheduler's
\* loop, a session entering participate or woken by the work channel), and a
\* serving remote peer sends what it owes. Nothing makes any other remote
\* peer send.
FairSpec ==
    /\ Spec
    /\ WF_vars(Forward)
    /\ WF_vars(Collect)
    /\ \A p \in Peers :
          /\ WF_vars(Enter(p))
          /\ WF_vars(TakeWork(p))
          /\ WF_vars(honest[p] /\ (New(p) \/ ReadChoked(p) \/ ReadInFlight(p)))

\* ------------------------------------------------- the pure computations

mainVars == <<sessionVars, honest, schedVars, histVars, sendVars, dp>>

\* the piece sizes whose blocks are computed: around every multiple of
\* BLOCK_MAX up to MaxCalcBlocks blocks
PieceSizes ==
    {P \in {k * BLOCK_MAX + d :
                k \in 0 .. MaxCalcBlocks - 1,
                d \in {1, 2, TailLen, BLOCK_MAX - 1, BLOCK_MAX}} : P >= 1}

\* the torrents whose piece sizes are computed: piece lengths small and
\* real, total lengths around every multiple of the piece length
Torrents ==
    {t \in {[plength |-> pl, length |-> q * pl + r] :
                pl \in {1, 2, 3, BLOCK_MAX, 2 * BLOCK_MAX},
                q \in 0 .. MaxCalcBlocks,
                r \in {0, 1, 2, 7232}} :
        /\ t.length >= 1
        /\ t.length <= MaxCalcBlocks * t.plength}

\* the number of pieces of a torrent: the hashes its info dictionary holds,
\* one per piece
npieces_of(t) == (t.length + (t.plength - 1)) \div t.plength

RECURSIVE SeqsUpTo(_, _)
SeqsUpTo(S, n) ==
    IF n = 0 THEN {<<>>}
    ELSE LET shorter == SeqsUpTo(S, n - 1)
         IN  shorter \cup {Append(q, x) : q \in shorter, x \in S}

\* the bitfield payloads queried
QueryPayloads ==
    SeqsUpTo({0, 255, 165} \cup {Pow2(k) : k \in 0 .. 7}, MaxBitfieldLen)

\* the messages encoded: every tag with every short payload, and some tags
\* with payloads at the limit of a frame (MAX - 1 bytes fit, MAX do not)
Messages ==
    {[tag |-> MessageTags[n], payload |-> pl] :
        n \in 1 .. 9, pl \in SeqsUpTo({0, 1, 255}, MaxPayloadLen)} \cup
    {[tag |-> tag, payload |-> [i \in 1 .. len |-> 255]] :
        tag \in {"Choke", "Piece"}, len \in {MAX - 1, MAX}}

\* Every computation starts from NoCalc: one behaviour computes one result.
CalcInit ==
    /\ Init
    /\ honest = [p \in Peers |-> TRUE]

\* main.rs:286-299 (peer.rs:117-126)  the block sizes of a piece of P bytes
CalcBlockSizes ==
    /\ calc = NoCalc
    /\ \E P \in PieceSizes :
          LET nb == nblocks_of(P)
          IN  calc' = [fn |-> "block_sizes", P |-> P, nblocks |-> nb,
                       sizes |-> [i \in 1 .. nb |-> block_size(i - 1, P, nb)]]
    /\ UNCHANGED mainVars

\* main.rs:275-285  the piece sizes of a torrent
CalcPieceSizes ==
    /\ calc = NoCalc
    /\ \E t \in Torrents :
          LET np == npieces_of(t)
          IN  calc' = [fn |-> "piece_sizes", length |-> t.length,
                       plength |-> t.plength, npieces |-> np,
                       sizes |-> [i \in 1 .. np |->
                                    piece_size_of(i - 1, np, t.length, t.plength)]]
    /\ UNCHANGED mainVars

\* peer.rs:389-397  Bitfield::has_piece(piece_i) on a payload
CalcHasPiece ==
    /\ calc = NoCalc
    /\ \E payload \in QueryPayloads, i \in 0 .. (U8_BITS * (MaxBitfieldLen + 1)) :
          calc' = [fn |-> "has_piece", payload |-> payload, i |-> i,
                   out |-> has_piece(payload, i)]
    /\ UNCHANGED mainVars

\* peer.rs:359-382, 288-357  encode into an empty buffer, then decode it;
\* what is kept of it: the tag, the length and the first bytes of the payload
\* encoded, whether encode accepted it, and of what decode gave the kind,
\* the tag, whether the payload is the one encoded, and the length of the
\* buffer it left
CalcRoundTrip ==
    /\ calc = NoCalc
    /\ \E item \in Messages :
          LET enc == encode(item, <<>>)
              dec == IF enc.ok THEN decode(enc.dst) ELSE decode(<<>>)
              n == Len(item.payload)
          IN  calc' = [fn |-> "codec", tag |-> item.tag, plen |-> n,
                       head |-> SubSeq(item.payload, 1,
                                       IF n < MaxPayloadLen THEN n
                                       ELSE MaxPayloadLen),
                       encoded |-> enc.ok, res |-> dec.res,
                       out_tag |-> dec.tag,
                       same_payload |-> (dec.payload = item.payload),
                       rest_len |-> Len(dec.rest)]
    /\ UNCHANGED mainVars

\* a keep-alive: the length 0 and nothing else
KeepAlive == to_be_bytes(0)

\* the bytes of a frame with tag byte t and a payload
WireFrame(t, payload) == to_be_bytes(Len(payload) + 1) \o <<t>> \o payload

\* the frames a byte stream is made of: a keep-alive, a Choke, a Piece with
\* one payload byte, a frame with the unknown tag 9, and the beginning (the
\* header and one byte) of a frame that announces MAX + 1 bytes
WireFrames ==
    {KeepAlive, WireFrame(0, <<>>), WireFrame(7, <<5>>), WireFrame(9, <<>>),
     to_be_bytes(MAX + 1) \o <<7>>}

\* what a byte stream may end with: nothing, half a header, a frame short of
\* its last byte, the header alone of a frame that announces MAX + 1 bytes
StreamTails == {<<>>, <<0, 0>>, <<0, 0, 0, 2, 7>>, to_be_bytes(MAX + 1)}

RECURSIVE Flatten(_)
Flatten(frames) ==
    IF frames = <<>> THEN <<>> ELSE Head(frames) \o Flatten(Tail(frames))

\* the bytes of a stream of frames and its tail
StreamBytes(frames, tail) == Flatten(frames) \o tail

\* decode called on a buffer that holds the whole stream until it gives no
\* message: the messages emitted and whether an error ended them
RECURSIVE decode_all(_)
decode_all(buf) ==
    LET d == decode(buf)
    IN  IF d.res = "msg"
        THEN LET more == decode_all(d.rest)
             IN  [out |-> <<[tag |-> d.tag, payload |-> d.payload]>> \o more.out,
                  err |-> more.err]
        ELSE [out |-> <<>>, err |-> (d.res = "err")]

\* the buffers decode is called on once: every stream, and with a frame of
\* exactly MAX bytes (complete, or its header and tag alone)
DecodeBuffers ==
    {StreamBytes(fs, tail) :
        fs \in SeqsUpTo(WireFrames, MaxFrames - 1), tail \in StreamTails}
    \cup {to_be_bytes(MAX) \o <<7>> \o [i \in 1 .. n |-> 255] :
            n \in {0, MAX - 1}}

\* peer.rs:293-356  one call of decode on a buffer; what is kept of it: the
\* length of the buffer and its first bytes, and of what decode gave the
\* kind, the tag, the length of the payload, whether the payload is the
\* bytes after the tag, and the number of bytes taken off the buffer
CalcDecode ==
    /\ calc = NoCalc
    /\ \E src \in DecodeBuffers :
          LET d == decode(src)
              n == Len(src)
              taken == n - Len(d.rest)
          IN  calc' = [fn |-> "decode", src_len |-> n,
                       head |-> SubSeq(src, 1, IF n < 8 THEN n ELSE 8),
                       res |-> d.res, out_tag |-> d.tag,
                       out_plen |-> Len(d.payload),
                       payload_ok |-> (d.res = "msg" =>
                                         d.payload = SubSeq(src, 6, taken)),
                       taken |-> taken]
    /\ UNCHANGED mainVars

\* a byte stream begins to arrive: nothing is buffered yet
CalcOpenStream ==
    /\ calc = NoCalc
    /\ \E fs \in SeqsUpTo(WireFrames, MaxFrames), tail \in StreamTails :
          calc' = [fn |-> "stream", frames |-> fs, tail |-> tail, fed |-> 0,
                   buf |-> <<>>, out |-> <<>>, err |-> FALSE, quiet |-> TRUE,
                   ate |-> <<>>]
    /\ UNCHANGED mainVars

\* the next bytes of the stream, one or more, are appended to the buffer
CalcFeed ==
    /\ calc.fn = "stream" /\ ~calc.err
    /\ LET stream == StreamBytes(calc.frames, calc.tail)
       IN  /\ calc.fed < Len(stream)
           /\ \E k \in 1 .. (Len(stream) - calc.fed) :
                 calc' = [calc EXCEPT
                            !.buf = @ \o SubSeq(stream, calc.fed + 1, calc.fed + k),
                            !.fed = @ + k, !.quiet = FALSE, !.ate = <<>>]
    /\ UNCHANGED mainVars

\* peer.rs:293-356  decode is called on the buffer: a message is emitted,
\* an error ends the stream, or more bytes are needed (ate: what that call
\* took off the buffer)
CalcDecodeNext ==
    /\ calc.fn = "stream" /\ ~calc.err /\ ~calc.quiet
    /\ LET d == decode(calc.buf)
       IN  calc' =
             IF d.res = "msg"
             THEN [calc EXCEPT !.buf = d.rest, !.ate = <<>>,
                               !.out = Append(@, [tag |-> d.tag,
                                                  payload |-> d.payload])]
             ELSE IF d.res = "err"
             THEN [calc EXCEPT !.err = TRUE, !.ate = <<>>]
             ELSE [calc EXCEPT !.buf = d.rest, !.quiet = TRUE,
                               !.ate = SubSeq(calc.buf, 1,
                                              Len(calc.buf) - Len(d.rest))]
    /\ UNCHANGED mainVars

CalcNext ==
    \/ CalcBlockSizes
    \/ CalcPieceSizes
    \/ CalcHasPiece
    \/ CalcRoundTrip
    \/ CalcDecode
    \/ CalcOpenStream
    \/ CalcFeed
    \/ CalcDecodeNext

CalcSpec == CalcInit /\ [][CalcNext]_vars

\* ------------------------------------- the single-peer download of a piece

\* the torrent of the single-peer download: two pieces of MaxCalcBlocks
\* blocks and a truncated last piece of TailLen bytes
DpTorrent ==
    [plength |-> MaxCalcBlocks * BLOCK_MAX,
     length |-> 2 * MaxCalcBlocks * BLOCK_MAX + TailLen]

\* main.rs:276-285
DpPieceSize(i) ==
    piece_size_of(i, npieces_of(DpTorrent), DpTorrent.length, DpTorrent.plength)

\* The bytes of a block are kept as what they are bytes of: the offset begin
\* in the piece, their number, and whether they are the torrent's bytes at
\* that place (genuine) or others.
BlockData(begin, len, genuine) ==
    [begin |-> begin, len |-> len, genuine |-> genuine]

\* a Piece message with its block of data
DataPieceMsg(index, begin, blen, genuine) ==
    [PieceMsg(index, begin, blen) EXCEPT
        !.bytes = <<BlockData(begin, blen, genuine)>>]

\* Sha1::new().update(bytes).finalize(): one digest per byte string, no
\* two byte strings with the same digest
Sha1(bytes) == [sha1 |-> bytes]

\* the bytes of piece i of the torrent
GenuinePiece(i) ==
    [b \in 1 .. nblocks_of(DpPieceSize(i)) |->
        BlockData((b - 1) * BLOCK_MAX,
                  block_size(b - 1, DpPieceSize(i), nblocks_of(DpPieceSize(i))),
                  TRUE)]

\* main.rs:275  t.info.pieces.0[piece_i]: the digest of the piece's bytes
piece_hash(i) == Sha1(GenuinePiece(i))

\* all_blocks.len()
RECURSIVE BytesLen(_)
BytesLen(blocks) ==
    IF blocks = <<>> THEN 0 ELSE Head(blocks).len + BytesLen(Tail(blocks))

\* main.rs:289-327  one turn of the loop over the blocks: the Request is
\* sent (sent: the stream accepted it) and frame f is read
dp_block(D, f, sent) ==
    LET end(r) == [D EXCEPT !.result = r]
        piece == ref_from_bytes(f)
    IN  IF ~sent THEN end(Err("send request for block"))
        ELSE IF f.res = "none" THEN end(Panic("peer always sends a piece"))
        ELSE IF f.res = "err" THEN end(Err("peer message was invalid"))
        ELSE IF f.tag # "Piece"
             THEN end(Panic("assertion left == right failed: piece.tag"))
        ELSE IF f.plen = 0
             THEN end(Panic("assertion failed: !piece.payload.is_empty()"))
        ELSE IF ~piece.some
             THEN end(Panic("always get all Piece response fields from peer"))
        ELSE IF piece.index # D.piece_i
             THEN end(Panic("assertion left == right failed: piece.index()"))
        ELSE IF piece.begin # D.block * BLOCK_MAX
             THEN end(Panic("assertion left == right failed: piece.begin()"))
        ELSE IF piece.blen # block_size(D.block, D.piece_size, D.nblocks)
             THEN end(Panic("assertion left == right failed: piece.block().len()"))
        ELSE [D EXCEPT !.all_blocks = D.all_blocks \o f.bytes,
                       !.block = D.block + 1]

\* the end of the download with the file written before the digest is
\* compared
dp_finish_write_first(D, written) ==
    IF BytesLen(D.all_blocks) # D.piece_size
    THEN [D EXCEPT !.result = Panic("assertion left == right failed: all_blocks.len()")]
    ELSE IF ~written
    THEN [D EXCEPT !.result = Err("write out downloaded piece")]
    ELSE IF Sha1(D.all_blocks) # piece_hash(D.piece_i)
    THEN [D EXCEPT !.result = Panic("assertion left == right failed: hash"),
                   !.output = Written(D.all_blocks)]
    ELSE [D EXCEPT !.result = OkResult, !.output = Written(D.all_blocks)]

\* main.rs:328-341  after the loop: the length and the digest of all_blocks
\* are checked, then the file is written (written: the write succeeded)
dp_finish(D, written) ==
    IF BytesLen(D.all_blocks) # D.piece_size
    THEN [D EXCEPT !.result = Panic("assertion left == right failed: all_blocks.len()")]
    ELSE IF Sha1(D.all_blocks) # piece_hash(D.piece_i)
    THEN [D EXCEPT !.result = Panic("assertion left == right failed: hash")]
    ELSE IF ~written
    THEN [D EXCEPT !.result = Err("write out downloaded piece")]
    ELSE [D EXCEPT !.result = OkResult, !.output = Written(D.all_blocks)]

\* main.rs:275-288  the download of piece i as its loop begins
DpStart(i) ==
    [pc |-> "blocks", piece_i |-> i, piece_size |-> DpPieceSize(i),
     nblocks |-> nblocks_of(DpPieceSize(i)), block |-> 0, all_blocks |-> <<>>,
     result |-> Running, output |-> NoOutput]

\* what the remote peer may send to the single-peer download: the stream's
\* end or failure, another message, Piece messages of this piece or another,
\* at the offset of the loop's block or the next, with the data of a block
\* size or none, genuine or not
DpFrames(D) ==
    {StreamEnd, StreamErr, Msg("Choke", 0), Msg("Piece", 0), ShortPieceMsg}
    \cup
    {DataPieceMsg(i, b * BLOCK_MAX, n, g) :
        i \in {D.piece_i, D.piece_i + 1},
        b \in {D.block, D.block + 1},
        n \in {BLOCK_MAX, TailLen, 0},
        g \in BOOLEAN}

DpInit ==
    /\ SessionInit
    /\ honest = [p \in Peers |-> TRUE]
    /\ calc = NoCalc
    /\ dp \in {DpStart(i) : i \in 0 .. npieces_of(DpTorrent) - 1}

nonDpVars == <<sessionVars, honest, schedVars, histVars, sendVars, calc>>

\* main.rs:289-327  the loop over the blocks, one block a step
DpBlock ==
    /\ dp.pc = "blocks" /\ dp.result = Running
    /\ dp.block < dp.nblocks
    /\ \E f \in DpFrames(dp), sent \in BOOLEAN : dp' = dp_block(dp, f, sent)
    /\ UNCHANGED nonDpVars

\* main.rs:328-341  the checks and the write after the loop
DpFinish ==
    /\ dp.pc = "blocks" /\ dp.result = Running
    /\ dp.block = dp.nblocks
    /\ \E written \in BOOLEAN : dp' = dp_finish(dp, written)
    /\ UNCHANGED nonDpVars

DpNext ==
    \/ DpBlock
    \/ DpFinish

DownloadPieceSpec == DpInit /\ [][DpNext]_vars

\* ------------------------------------------------------------------ claims

InFlight(p) == pc[p] = "in_flight" /\ result[p] = Running

Delivered(b) == \E p \in Peers : delivered[p][b] > 0

\* C1: a step in which session p reads a Choke message (tag 0, no payload)
\* with block b in flight sets choked, appends b to the requeue channel once, sends nothing
\* on the completion channel; and from then until p reads an Unchoke it is
\* choked, stands neither at the work receive nor in the request loop, and
\* takes no work (so sends no Request).
C1_ChokeInFlightRequeues ==
    [][\A p \in Peers :
         /\ nchoke'[p] # nchoke[p] =>
               /\ InFlight(p)
               /\ choked'[p]
               /\ requeue' = Append(requeue, block[p])
               /\ requeued' = Inc(requeued, p, block[p])
               /\ completed' = completed
               /\ delivered' = delivered
               /\ awaitUnchoke'[p]
         /\ awaitUnchoke'[p] =>
               /\ choked'[p]
               /\ pc'[p] = "wait_unchoke"
         /\ awaitUnchoke[p] => takes'[p] = takes[p]]_vars

\* C1 witness: a session read Choke in flight, its block is on the requeue
\* channel and it waits for Unchoke
C1_Witness ==
    \E p \in Peers :
        /\ nchoke[p] = 1 /\ awaitUnchoke[p] /\ choked[p]
        /\ \E b \in Blocks : requeued[p][b] = 1 /\ requeue = <<b>>

\* C2 (as claimed): once A has requeued a block on a Choke and B's remote peer
\* serves B, every block of the piece is eventually delivered on the
\* completion channel.
C2_RequeuedPieceCompletes ==
    (honest["B"] /\ nchoke["A"] > 0) ~> (\A b \in Blocks : Delivered(b))

\* C3: no block index is held (taken from the work channel and neither
\* delivered nor requeued) by two sessions at once.
C3_OneHolderPerBlock ==
    \A p, q \in Peers :
        (p # q /\ block[p] # NoBlock) => block[p] # block[q]

\* C3 witness: both sessions have a Request outstanding, after a requeue
C3_Witness ==
    /\ InFlight("A") /\ InFlight("B")
    /\ \E p \in Peers : nchoke[p] > 0

\* C4 (as claimed): a session receives a given block index from the work
\* channel at most once.
C4_TakenAtMostOnce ==
    \A p \in Peers, b \in Blocks : takes[p][b] <= 1

\* C4 (amended): a session receives a block index again only after it sent
\* that index on the requeue channel itself: at most once more often than it
\* requeued it, and never once the block is delivered.
C4_TakenOncePerOwnRequeue ==
    \A p \in Peers, b \in Blocks :
        /\ takes[p][b] <= 1 + requeued[p][b]
        /\ Delivered(b) => \A q \in Peers : block[q] # b

\* C4 witness: a session received the same block index twice
C4_Witness ==
    \E p \in Peers, b \in Blocks : takes[p][b] = 2 /\ requeued[p][b] = 1

\* C5 (as claimed): once work is closed, every running participant without a
\* block in flight, choked or not, eventually returns, with no further
\* message of its remote peer needed. (It returns Ok; the errors that a
\* further message of the remote peer can cause are let pass here, so that
\* only a session that never returns refutes it.)
C5_IdleParticipantsReturn ==
    \A p \in Peers :
        (closed /\ result[p] = Running /\ pc[p] \in {"wait_unchoke", "recv"})
            ~> (result[p] # Running)

\* C5 (amended): once work is closed, every participant that waits at the
\* work receive (unchoked, no block in flight) eventually returns Ok.
C5_ReceiversReturn ==
    \A p \in Peers :
        (closed /\ result[p] = Running /\ pc[p] = "recv")
            ~> (result[p] = OkResult)

\* C5 witness: participate returned Ok from the closed work channel
C5_Witness ==
    \E p \in Peers : closed /\ pc[p] = "recv" /\ result[p] = OkResult

\* C6 (as claimed): participate never ends with an error in the choked-wait
\* loop because it read a Choke there.
C6_ChokeWhileChokedTolerated ==
    \A p \in Peers :
        ~(/\ pc[p] = "wait_unchoke"
          /\ result[p] = Err("peer sent unchoke while unchoked"))

\* C7 (as claimed): has_piece holds of every piece index a session has read
\* in a Have message.
C7_HaveSetsBit ==
    \A p \in Peers : \A q \in haveRead[p] : has_piece(bitfield[p], q)

\* C8: with block b in flight, the handler leaves the session as it is on
\* every Piece (of 8 payload bytes or more, so that it has an index and a
\* begin) whose index or begin is not the Request's, and on the Piece
\* with the Request's index, begin and length it sends on the completion
\* channel and stands at the work receive; a step that delivers appends
\* exactly that Piece to the completion channel, once.
C8_StaleIgnoredMatchDelivered ==
    /\ [](\A p \in Peers : InFlight(p) =>
            \A f \in PieceFrames \ {ShortPieceMsg} :
                LET L == Local(p)
                    o == inflight_read(L, f)
                IN  IF f.index # piece_i \/ f.begin # block[p] * BLOCK_MAX
                    THEN o = Stay(L)
                    ELSE f = Answer(block[p]) =>
                            o = [Stay(L) EXCEPT !.finish = TRUE,
                                                !.block = NoBlock,
                                                !.pc = "recv"])
    /\ [][\A p \in Peers :
            delivered'[p] # delivered[p] =>
                /\ InFlight(p)
                /\ delivered' = Inc(delivered, p, block[p])
                /\ completed' = Append(completed, Answer(block[p]))
                /\ requeue' = requeue
                /\ pc'[p] = "recv" /\ result'[p] = Running]_vars

\* C8 witness: a session delivered a block and stands at the work receive
C8_Witness ==
    \E p \in Peers, b \in Blocks :
        /\ delivered[p][b] = 1 /\ pc[p] = "recv" /\ result[p] = Running
        /\ completed # <<>> /\ completed[Len(completed)] = Answer(b)

\* C9 (as claimed): no session ends by a panic.
C9_NoPanic ==
    \A p \in Peers : result[p].kind # "panic"

\* C10 (as claimed): no Request stays outstanding for ever: it is answered
\* (by its Piece, a Choke, the end of the session) or its block is requeued.
C10_UnansweredRequestRequeued ==
    \A p \in Peers, b \in Blocks :
        (InFlight(p) /\ block[p] = b) ~> ~(InFlight(p) /\ block[p] = b)

\* C11: with a block in flight (the session is unchoked), an Unchoke message
\* makes participate return an error and send nothing on the completion
\* channel: the handler yields an Err and no finish, and a step that ends a
\* session with that error in the request loop leaves the completion channel
\* as it was.
C11_UnchokeInFlightIsError ==
    /\ [](\A p \in Peers : InFlight(p) =>
            \A f \in {Msg("Unchoke", 0), Msg("Unchoke", 1)} :
                LET o == inflight_read(Local(p), f)
                IN  o.result.kind = "Err" /\ ~o.finish)
    /\ [][\A p \in Peers :
            (/\ InFlight(p)
             /\ result'[p] = Err("peer sent unchoke while unchoked")) =>
                /\ completed' = completed
                /\ delivered' = delivered]_vars

\* C11 witness: a session read Unchoke with a block in flight and ended with
\* the error, the block not delivered
C11_Witness ==
    \E p \in Peers :
        /\ pc[p] = "in_flight" /\ block[p] # NoBlock /\ ~choked[p]
        /\ result[p] = Err("peer sent unchoke while unchoked")
        /\ delivered[p][block[p]] = 0

\* C12: a Bitfield message read after construction makes participate return
\* an error, in the loop that waits for Unchoke and in the request loop
\* alike, whatever the payload.
C12_BitfieldAfterConstructionIsError ==
    \A p \in Peers : \A bf \in BitfieldPayloads :
        /\ (pc[p] = "wait_unchoke" /\ result[p] = Running) =>
              choked_read(Local(p), BitfieldMsg(bf)).result.kind = "Err"
        /\ InFlight(p) =>
              inflight_read(Local(p), BitfieldMsg(bf)).result.kind = "Err"

\* C12 witness: one session ended on a Bitfield while waiting for Unchoke,
\* the other on a Bitfield with a block in flight
C12_Witness ==
    \E p, q \in Peers :
        /\ pc[p] = "wait_unchoke" /\ pc[q] = "in_flight"
        /\ result[p] = Err("peer sent bitfield after handshake has been completed")
        /\ result[q] = result[p]

\* C13: after a valid handshake, Peer::new on a first message other than
\* Bitfield yields an error and no session; on a Bitfield it yields a session
\* whose bitfield is that payload; and a step that constructs a session
\* leaves it choked with the payload of a Bitfield message as its bitfield.
C13_FirstFrameMustBeBitfield ==
    /\ [](\A p \in Peers : pc[p] = "new" =>
            \A f \in AllFrames : f.res = "msg" =>
                LET n == Peer_new("ok", [length |-> 19,
                                         bittorrent |-> "BitTorrent protocol"], f)
                IN  IF f.tag # "Bitfield"
                    THEN n.result.kind = "Err" /\ ~n.made
                    ELSE n.made /\ n.result = Running /\ n.bitfield = f.bytes)
    /\ [][\A p \in Peers :
            (pc[p] = "new" /\ pc'[p] # "new") =>
                /\ choked'[p]
                /\ result'[p] = Running
                /\ bitfield'[p] \in BitfieldPayloads]_vars

\* C13 witness: one session was constructed from the Bitfield payload 64,
\* the other construction failed on the tag of its first message
C13_Witness ==
    \E p, q \in Peers :
        /\ pc[p] = "idle" /\ bitfield[p] = <<64>> /\ choked[p]
        /\ pc[q] = "new"
        /\ result[q] = Err("Condition failed: bitfield.tag == MessageTag::Bitfield")

\* C14: when the handshake read back has a first byte other than 19 or a
\* protocol name other than BitTorrent protocol, Peer::new yields an error
\* and no session, and the same one whatever the stream holds next (a
\* message, a decoder error, its end): no frame was read.
C14_BadHandshakeFailsFirst ==
    \A p \in Peers : pc[p] = "new" =>
        \A hs \in Handshakes :
            (hs.length # 19 \/ hs.bittorrent # "BitTorrent protocol") =>
                \A f \in AllFrames :
                    LET n == Peer_new("ok", hs, f)
                    IN  /\ n.result.kind = "Err" /\ ~n.made
                        /\ n = Peer_new("ok", hs, StreamEnd)

\* C14 witness: one construction failed on the length byte, the other on the
\* protocol name
C14_Witness ==
    \E p, q \in Peers :
        /\ pc[p] = "new" /\ pc[q] = "new"
        /\ result[p] = Err("Condition failed: handshake.length == 19")
        /\ result[q] = Err("Condition failed: handshake.bittorrent is not the protocol name")

\* C15: an invocation of participate (on a session that has the piece, its
\* precondition) hands exactly one Interested message to the stream, at its
\* entry, and every Request it sends comes after it.
C15_OneInterestedFirst ==
    /\ [](\A p \in Peers :
            /\ nInterested[p] <= 1
            /\ pc[p] \in {"wait_unchoke", "recv", "in_flight"} =>
                  nInterested[p] = 1
            /\ (pc[p] = "idle" /\ result[p] # Running
                  /\ has_piece(bitfield[p], piece_i)) => nInterested[p] = 1
            /\ requestsSent[p] # {} => nInterested[p] = 1)
    /\ [][\A p \in Peers :
            requestsSent'[p] # requestsSent[p] =>
                nInterested[p] = 1 /\ nInterested'[p] = 1]_vars

\* C15 witness: a session sent one Interested and then two Requests
C15_Witness ==
    \E p \in Peers :
        nInterested[p] = 1 /\ Cardinality(requestsSent[p]) = 2

\* C16: a step in which a session takes block index b from the work channel
\* sends the Request with index piece_i, begin b * BLOCK_MAX and length
\* BLOCK_MAX, or what is left of the piece for its last block; a piece 0 of
\* 32768 bytes yields the Requests (0, 0, 16384) and (0, 16384, 16384).
C16_RequestFields ==
    /\ [](\A p \in Peers :
            /\ \A r \in requestsSent[p] :
                  /\ from_be_bytes(r.index) = piece_i
                  /\ \E b \in Blocks :
                        /\ takes[p][b] > 0
                        /\ from_be_bytes(r.begin) = b * BLOCK_MAX
                  /\ from_be_bytes(r.begin) + from_be_bytes(r.length)
                        <= piece_size
            /\ \A b \in 0 .. 1 :
                  LET r == Request_new(0, b * BLOCK_MAX, block_size(b, 32768, 2))
                  IN  /\ from_be_bytes(r.index) = 0
                      /\ from_be_bytes(r.begin) = b * 16384
                      /\ from_be_bytes(r.length) = 16384)
    /\ [][\A p \in Peers :
            takes'[p] # takes[p] =>
                LET b == Head(work)
                    length == IF b = nblocks - 1
                              THEN piece_size - (nblocks - 1) * BLOCK_MAX
                              ELSE BLOCK_MAX
                IN  \E r \in requestsSent'[p] :
                        /\ requestsSent'[p] = requestsSent[p] \cup {r}
                        /\ r.tag = "Request"
                        /\ from_be_bytes(r.index) = piece_i
                        /\ from_be_bytes(r.begin) = b * BLOCK_MAX
                        /\ from_be_bytes(r.length) = length]_vars

\* C16 witness: a session sent the Request for the last block of the piece
C16_Witness ==
    \E p \in Peers : \E r \in requestsSent[p] :
        /\ from_be_bytes(r.begin) = (nblocks - 1) * BLOCK_MAX
        /\ from_be_bytes(r.length) = TailLen

RECURSIVE SumSeq(_)
SumSeq(q) == IF q = <<>> THEN 0 ELSE Head(q) + SumSeq(Tail(q))

\* C17: for a piece of P >= 1 bytes and nblocks = ceil(P / BLOCK_MAX), every
\* block size is between 1 and BLOCK_MAX, it is BLOCK_MAX for every block but
\* the last and P - (nblocks - 1) * BLOCK_MAX for the last, the sizes sum to
\* P, and the last block of a piece that is a multiple of BLOCK_MAX is
\* BLOCK_MAX.
C17_BlockSizes ==
    calc.fn = "block_sizes" =>
        LET P == calc.P
            nb == calc.nblocks
            sizes == calc.sizes
        IN  /\ P >= 1
            /\ (nb - 1) * BLOCK_MAX < P /\ P <= nb * BLOCK_MAX
            /\ Len(sizes) = nb
            /\ \A i \in 1 .. nb : 1 <= sizes[i] /\ sizes[i] <= BLOCK_MAX
            /\ \A i \in 1 .. nb - 1 : sizes[i] = BLOCK_MAX
            /\ sizes[nb] = P - (nb - 1) * BLOCK_MAX
            /\ SumSeq(sizes) = P
            /\ P % BLOCK_MAX = 0 => sizes[nb] = BLOCK_MAX

\* C17 witness: the block sizes of a piece of two full blocks
C17_Witness ==
    /\ calc.fn = "block_sizes"
    /\ calc.P = 2 * BLOCK_MAX
    /\ calc.sizes = <<BLOCK_MAX, BLOCK_MAX>>

\* C18: for a torrent of ceil(length / plength) pieces, the size of every
\* piece but the last is plength, the size of the last is length mod plength,
\* or plength when that is 0, no size is 0 and the sizes sum to length.
C18_PieceSizes ==
    calc.fn = "piece_sizes" =>
        LET np == calc.npieces
            sizes == calc.sizes
            md == calc.length % calc.plength
        IN  /\ (np - 1) * calc.plength < calc.length
            /\ calc.length <= np * calc.plength
            /\ Len(sizes) = np
            /\ \A i \in 1 .. np - 1 : sizes[i] = calc.plength
            /\ sizes[np] = IF md = 0 THEN calc.plength ELSE md
            /\ \A i \in 1 .. np : sizes[i] > 0
            /\ SumSeq(sizes) = calc.length

\* C18 witness: the torrent of 40000 bytes in pieces of 32768, whose piece 1
\* has 7232 bytes
C18_Witness ==
    /\ calc.fn = "piece_sizes"
    /\ calc.length = 40000 /\ calc.plength = 2 * BLOCK_MAX
    /\ calc.sizes = <<32768, 7232>>

\* C19: has_piece(i) is true exactly when byte i / 8 is within the payload
\* and its bit 7 - i mod 8 (counted from the least significant) is set; it is
\* false for every index past the end.
C19_HasPieceMsbFirst ==
    calc.fn = "has_piece" =>
        LET byte_i == calc.i \div 8
            within == byte_i < Len(calc.payload)
        IN  /\ calc.out =
                  (within /\
                   (calc.payload[byte_i + 1] \div Pow2(7 - (calc.i % 8))) % 2 = 1)
            /\ ~within => ~calc.out

\* C19 witness: piece 9 asked of the payload (0, 64), which has it
C19_Witness ==
    /\ calc.fn = "has_piece"
    /\ calc.payload = <<0, 64>> /\ calc.i = 9 /\ calc.out

\* C20: a message of any of the nine tags with a payload of at most
\* 2^17 - 1 bytes is encoded, and decoding the bytes produced yields a
\* message of the same tag and payload and leaves the buffer empty.
C20_EncodeDecodeRoundTrip ==
    (calc.fn = "codec" /\ calc.plen <= Pow2(17) - 1) =>
        /\ calc.encoded
        /\ calc.res = "msg"
        /\ calc.out_tag = calc.tag
        /\ calc.same_payload
        /\ calc.rest_len = 0

\* C20 witness: a Piece message with a payload of 2^17 - 1 bytes went
\* through the codec
C20_Witness ==
    /\ calc.fn = "codec"
    /\ calc.tag = "Piece" /\ calc.plen = Pow2(17) - 1
    /\ calc.res = "msg"

\* the number of entries of channel q that are block index b
Count(q, b) == Cardinality({i \in DOMAIN q : q[i] = b})

\* the sum over the blocks of a history counter of session p
Total(cnt, p) == SumOver(cnt[p], Blocks)

\* the number of times block index b was sent on the completion channel
TimesDelivered(b) == SumOver([p \in Peers |-> delivered[p][b]], Peers)

\* C26 (as claimed): every block index of the piece is in exactly one place:
\* pending in the work or the requeue channel, in flight at one running
\* session, or delivered on the completion channel.
C26_NoBlockLost ==
    \A b \in Blocks :
        Count(work, b) + Count(requeue, b)
          + Cardinality({p \in Peers : block[p] = b /\ result[p] = Running})
          + TimesDelivered(b) = 1

\* C27: no block index is sent on the completion channel more than once over
\* all sessions; a session that waits for Unchoke leaves every Piece it reads
\* aside (so the Piece for a block it requeued, arriving late, is not
\* delivered by it).
C27_DeliveredAtMostOnce ==
    /\ \A b \in Blocks : TimesDelivered(b) <= 1
    /\ \A p \in Peers :
          (pc[p] = "wait_unchoke" /\ result[p] = Running) =>
              \A f \in PieceFrames \ {ShortPieceMsg} :
                  choked_read(Local(p), f) = Stay(Local(p))

\* C27 witness: session p requeued block b on a Choke and waits for Unchoke,
\* its remote peer free to send the Piece for b (reading it leaves p in this
\* very state), and the other session delivered b
C27_Witness ==
    \E p, q \in Peers, b \in Blocks :
        /\ p # q /\ ~honest[p]
        /\ requeued[p][b] = 1 /\ awaitUnchoke[p]
        /\ pc[p] = "wait_unchoke" /\ result[p] = Running
        /\ delivered[q][b] = 1

\* C28: a session stands at the work receive or has a Request outstanding
\* only with choked false, takes work and sends a Request only in a step
\* that starts and ends with choked false; choked becomes false only by an
\* Unchoke read in the loop that waits for it, and a session still choked
\* that never read a Choke in flight (so never read an Unchoke) has taken no
\* work and sent no Request.
C28_RequestsOnlyUnchoked ==
    /\ [](\A p \in Peers :
            /\ (pc[p] \in {"recv", "in_flight"} /\ result[p] = Running) =>
                  ~choked[p]
            /\ (pc[p] = "wait_unchoke" /\ result[p] = Running) =>
                  \A f \in AllFrames :
                      ~choked_read(Local(p), f).choked => f.tag = "Unchoke"
            /\ (choked[p] /\ nchoke[p] = 0) =>
                  requestsSent[p] = {} /\ Total(takes, p) = 0)
    /\ [][\A p \in Peers :
            /\ (takes'[p] # takes[p] \/ requestsSent'[p] # requestsSent[p]) =>
                  ~choked[p] /\ ~choked'[p]
            /\ (choked[p] /\ ~choked'[p]) => pc[p] = "wait_unchoke"]_vars

\* C28 witness: one session, unchoked, has a Request outstanding; the other
\* still waits for its first Unchoke and has sent none
C28_Witness ==
    \E p, q \in Peers :
        /\ InFlight(p) /\ ~choked[p] /\ requestsSent[p] # {}
        /\ pc[q] = "wait_unchoke" /\ choked[q] /\ requestsSent[q] = {}

\* C29: a session has at most one Request outstanding: every block it took
\* from the work channel but the one it holds was delivered or requeued by
\* it, and it takes work and sends the next Request only when it holds none.
C29_OneRequestOutstanding ==
    /\ [](\A p \in Peers :
            Total(takes, p) =
                Total(delivered, p) + Total(requeued, p)
                  + (IF block[p] # NoBlock THEN 1 ELSE 0))
    /\ [][\A p \in Peers :
            (takes'[p] # takes[p] \/ requestsSent'[p] # requestsSent[p]) =>
                block[p] = NoBlock]_vars

\* C29 witness: a session delivered one block and has the Request for the
\* next outstanding
C29_Witness ==
    \E p \in Peers :
        /\ InFlight(p) /\ Total(takes, p) = 2 /\ Total(delivered, p) = 1

\* C24: when the digest of the reassembled piece differs from the expected
\* one the download fails and nothing is written to the output; what the
\* output holds is the reassembled piece, written in the step that found its
\* digest equal to the expected one.
C24_HashCheckedBeforeOutput ==
    /\ [](dp.pc = "blocks" =>
            /\ (/\ dp.block = dp.nblocks /\ dp.result # Running
                 /\ Sha1(dp.all_blocks) # piece_hash(dp.piece_i)) =>
                    /\ dp.result.kind \in {"panic", "Err"}
                    /\ dp.output = NoOutput
            /\ dp.output # NoOutput =>
                    /\ dp.output = Written(dp.all_blocks)
                    /\ Sha1(dp.output.bytes) = piece_hash(dp.piece_i)
                    /\ dp.output.bytes = GenuinePiece(dp.piece_i))
    /\ [][dp'.output # dp.output =>
            /\ dp.block = dp.nblocks /\ dp.result = Running
            /\ Sha1(dp.all_blocks) = piece_hash(dp.piece_i)
            /\ dp'.output = Written(dp.all_blocks)]_vars

\* C24 witness: a piece whose last block came corrupted was reassembled, its
\* digest differed, the download failed and wrote nothing
C24_Witness ==
    /\ dp.pc = "blocks" /\ dp.piece_i = 0 /\ dp.block = dp.nblocks
    /\ \A b \in 1 .. dp.nblocks :
          dp.all_blocks[b].genuine = (b # dp.nblocks)
    /\ dp.result = Panic("assertion left == right failed: hash")
    /\ dp.output = NoOutput

\* C25: no Piece for the block in flight whose data length is not the
\* requested block size is delivered: every entry of the completion channel
\* has the length of its block, the handler of participate sends no such
\* Piece on finish, and the loop of the single-peer download appends no such
\* Piece to all_blocks.
C25_WrongLengthNotDelivered ==
    /\ \A i \in DOMAIN completed :
          LET f == completed[i]
              b == f.begin \div BLOCK_MAX
          IN  /\ f.index = piece_i
              /\ f.plen - PIECE_LEAD =
                    (IF b = nblocks - 1
                     THEN piece_size - (nblocks - 1) * BLOCK_MAX
                     ELSE BLOCK_MAX)
    /\ \A p \in Peers : InFlight(p) =>
          \A f \in PieceFrames \ {ShortPieceMsg} :
              (/\ f.index = piece_i /\ f.begin = block[p] * BLOCK_MAX
               /\ f # Answer(block[p])) =>
                  /\ ~inflight_read(Local(p), f).finish
                  /\ inflight_read(Local(p), f).result # Running
    /\ \A i \in 0 .. npieces_of(DpTorrent) - 1 :
          \A b \in 0 .. nblocks_of(DpPieceSize(i)) - 1 :
              LET D == [DpStart(i) EXCEPT !.block = b]
              IN  \A f \in DpFrames(D) :
                      (/\ f.tag = "Piece" /\ f.plen >= PIECE_LEAD
                       /\ f.index = i /\ f.begin = b * BLOCK_MAX
                       /\ f.plen - PIECE_LEAD #
                             (IF b = D.nblocks - 1
                              THEN D.piece_size - (D.nblocks - 1) * BLOCK_MAX
                              ELSE BLOCK_MAX)) =>
                          /\ dp_block(D, f, TRUE).all_blocks = D.all_blocks
                          /\ dp_block(D, f, TRUE).result.kind = "panic"

\* C25 witness: a session read a Piece of the wrong length for its block in
\* flight and ended on it, the block not delivered
C25_Witness ==
    \E p \in Peers :
        /\ pc[p] = "in_flight" /\ block[p] # NoBlock
        /\ result[p] = Panic("assertion left == right failed")
        /\ delivered[p][block[p]] = 0

\* the frames of a stream, the keep-alives taken out
RECURSIVE StripKeepAlives(_)
StripKeepAlives(frames) ==
    IF frames = <<>> THEN <<>>
    ELSE IF Head(frames) = KeepAlive THEN StripKeepAlives(Tail(frames))
    ELSE <<Head(frames)>> \o StripKeepAlives(Tail(frames))

IsPrefix(a, b) == Len(a) <= Len(b) /\ a = SubSeq(b, 1, Len(a))

\* the stream has arrived whole and decode has nothing more to give
StreamDone ==
    /\ calc.fn = "stream"
    /\ calc.fed = Len(StreamBytes(calc.frames, calc.tail))
    /\ calc.quiet \/ calc.err

\* C21: a keep-alive (a frame of length 0) never makes decode emit a Message
\* or an error: a buffer of keep-alives alone gives Ok(None) and is emptied,
\* and a stream decodes, at once or in pieces, to the messages and the
\* error of the same stream with its keep-alives removed. A session reads
\* Messages only, so a keep-alive changes nothing of it.
C21_KeepAliveInvisible ==
    /\ \A n \in 1 .. MaxFrames + 1 :
          LET d == decode(Flatten([i \in 1 .. n |-> KeepAlive]))
          IN  d.res = "none" /\ d.rest = <<>>
    /\ calc.fn = "stream" =>
          LET with == decode_all(StreamBytes(calc.frames, calc.tail))
              without ==
                decode_all(StreamBytes(StripKeepAlives(calc.frames), calc.tail))
          IN  /\ with = without
              /\ IsPrefix(calc.out, without.out)
              /\ StreamDone =>
                    calc.out = without.out /\ calc.err = without.err

\* C21 witness: a stream with a keep-alive between two frames has arrived
\* and both messages were emitted
C21_Witness ==
    /\ StreamDone
    /\ calc.frames = <<WireFrame(0, <<>>), KeepAlive, WireFrame(7, <<5>>)>>
    /\ calc.tail = <<>>
    /\ calc.out = <<[tag |-> "Choke", payload |-> <<>>],
                    [tag |-> "Piece", payload |-> <<5>>]>>
    /\ ~calc.err

\* C22 (as the specification states it): with at least 4 bytes buffered and
\* a header that announces more than 2^17 bytes, decode fails instead of
\* asking for more bytes, however many bytes follow the header; a header
\* of exactly 2^17 is not rejected.
C22_OversizeRejected ==
    (calc.fn = "decode" /\ calc.src_len >= 4) =>
        LET N == from_be_bytes(SubSeq(calc.head, 1, 4))
        IN  /\ N > Pow2(17) => calc.res = "err"
            /\ N = Pow2(17) => calc.res # "err"

\* C23: a frame buffered whole (1 <= N <= MAX) whose tag is not in 0..8 is
\* an error, no Message, and nothing is taken off the buffer; with a tag in
\* 0..8 decode emits the Message of that tag, its payload the N - 1 bytes
\* after the tag, and takes exactly 4 + N bytes off the buffer.
C23_TagCheckedBeforeAdvance ==
    (calc.fn = "decode" /\ calc.src_len >= 5) =>
        LET N == from_be_bytes(SubSeq(calc.head, 1, 4))
        IN  (N >= 1 /\ N <= MAX /\ calc.src_len >= 4 + N) =>
                IF calc.head[5] > 8
                THEN calc.res = "err" /\ calc.taken = 0
                ELSE /\ calc.res = "msg"
                     /\ calc.out_tag = MessageTags[calc.head[5] + 1]
                     /\ calc.out_plen = N - 1 /\ calc.payload_ok
                     /\ calc.taken = 4 + N

\* C23 witness: decode was called on a buffer that holds a whole frame with
\* the tag 9, and another frame behind it
C23_Witness ==
    /\ calc.fn = "decode"
    /\ calc.head = WireFrame(9, <<>>) \o SubSeq(WireFrame(0, <<>>), 1, 3)
    /\ calc.res = "err" /\ calc.taken = 0

\* C30: the result of decoding a stream does not depend on how its bytes
\* arrive: fed in any pieces, the messages emitted are a prefix of those of
\* the stream buffered whole, an error comes only where the whole stream
\* gives it, and once all has arrived both agree. A decode call that asks
\* for more bytes takes nothing off the buffer but keep-alive headers.
C30_ChunkingIndependent ==
    calc.fn = "stream" =>
        LET whole == decode_all(StreamBytes(calc.frames, calc.tail))
        IN  /\ IsPrefix(calc.out, whole.out)
            /\ calc.err => whole.err /\ calc.out = whole.out
            /\ StreamDone => calc.out = whole.out /\ calc.err = whole.err
            /\ Len(calc.ate) % 4 = 0
            /\ \A i \in 1 .. Len(calc.ate) : calc.ate[i] = 0

\* C30 witness: one message was emitted, then decode asked for more with
\* the beginning of the next frame in the buffer, a keep-alive taken off
C30_Witness ==
    /\ calc.fn = "stream" /\ calc.quiet /\ ~calc.err
    /\ calc.frames = <<WireFrame(0, <<>>), KeepAlive, WireFrame(7, <<5>>)>>
    /\ Len(calc.out) = 1
    /\ calc.ate = KeepAlive
    /\ calc.buf = SubSeq(WireFrame(7, <<5>>), 1, 5)

====
